---- MODULE Spec2Model ----
(***************************************************************************)
(* The presentation shell of the stock price predictor                     *)
(* (frontend/src/App.js): the React component App, its state hooks, its    *)
(* three asynchronous handlers (handleFileUpload, handlePredict,           *)
(* handleDownload) and the chart assembly of createChart.                  *)
(*                                                                         *)
(* A handler runs up to its await in one step; the part after the await    *)
(* (try / catch / finally) is the step taken when the response arrives.    *)
(* The backend is the environment: it answers any pending request, in any  *)
(* order, with a success or with an error.                                 *)
(***************************************************************************)
EXTENDS Integers, Sequences, FiniteSets, TLC

\* ---------------------------------------------------------------- bounds
\* user events (file selections, Generate Forecast / Download CSV clicks)
MaxEvents == 4
\* characters typed into the Forecast Days field
MaxLen == 2
\* points of each series of a chart payload
MaxPoints == 2

\* ------------------------------------------------------- values and inputs
\* JavaScript null, as held by useState(null)
Null == [null |-> TRUE]

\* the value of a property that was never set, or of an index past the end
Undefined == "undefined"

\* object[key] of JavaScript: Undefined for a key the object does not have
Field(object, key) ==
  IF key \in DOMAIN object THEN object[key] ELSE Undefined

\* A JavaScript number that is either NaN or an integer
NaN == [nan |-> TRUE, n |-> 0]
Num(k) == [nan |-> FALSE, n |-> k]

\* useState(14)
InitialForecastDays == 14
\* useState('BNP')
InitialStockSymbol == "BNP"

Symbols == {"BNP", "ACA"}

\* names of the files the user can pick, as character sequences; <<>> stands
\* for a change event with no file (event.target.files[0] undefined)
NoFile == <<>>
FileNames ==
  { <<"a", ".", "c", "s", "v">>,
    <<"a", ".", "t", "x", "t">>,
    <<"c", "s", "v">> }

\* String.prototype.endsWith
EndsWith(s, suffix) ==
  /\ Len(s) >= Len(suffix)
  /\ SubSeq(s, Len(s) - Len(suffix) + 1, Len(s)) = suffix

DotCsv == <<".", "c", "s", "v">>

\* characters the user types into the number field
Chars == {"-", ".", "9"}
DigitChars == {"0", "1", "2", "3", "4", "5", "6", "7", "8", "9"}

DigitVal(c) ==
  CASE c = "0" -> 0 [] c = "1" -> 1 [] c = "2" -> 2 [] c = "3" -> 3
    [] c = "4" -> 4 [] c = "5" -> 5 [] c = "6" -> 6 [] c = "7" -> 7
    [] c = "8" -> 8 [] c = "9" -> 9

SeqsUpTo(S, k) == UNION { [1..m -> S] : m \in 0..k }

AllDigits(s) == \A i \in 1..Len(s) : s[i] \in DigitChars

\* The value an <input type="number"> reports: a valid floating-point number
\* (optional "-", then digits, or digits "." digits, or "." digits), or the
\* empty string when the field is empty or what was typed is not a number.
IsValidNumber(s) ==
  LET body == IF Len(s) > 0 /\ s[1] = "-" THEN Tail(s) ELSE s
  IN  \/ Len(body) > 0 /\ AllDigits(body)
      \/ \E d \in 1..Len(body) :
            /\ body[d] = "."
            /\ AllDigits(SubSeq(body, 1, d - 1))
            /\ d < Len(body)
            /\ AllDigits(SubSeq(body, d + 1, Len(body)))

NumberInputValues ==
  { s \in SeqsUpTo(Chars, MaxLen) : s = <<>> \/ IsValidNumber(s) }

\* value of a string of decimal digits
RECURSIVE DecVal(_)
DecVal(s) ==
  IF s = <<>> THEN 0
  ELSE 10 * DecVal(SubSeq(s, 1, Len(s) - 1)) + DigitVal(s[Len(s)])

\* length of the longest prefix of s made of digits
RECURSIVE DigitPrefix(_)
DigitPrefix(s) ==
  IF s = <<>> \/ Head(s) \notin DigitChars THEN 0
  ELSE 1 + DigitPrefix(Tail(s))

\* parseInt(string) with no radix, on the values a number field reports
\* (no white space, no 0x prefix): an optional sign, then the longest run of
\* digits; NaN when there is none.
parseInt(s) ==
  LET signed == Len(s) > 0 /\ s[1] \in {"-", "+"}
      body   == IF signed THEN Tail(s) ELSE s
      k      == DigitPrefix(body)
      mag    == DecVal(SubSeq(body, 1, k))
  IN  IF k = 0 THEN NaN
      ELSE IF signed /\ s[1] = "-" THEN Num(0 - mag) ELSE Num(mag)

\* -------------------------------------------------------------- backend
\* what the backend can answer (the backend is not part of the sources)
DataIds == {"d1", "d2"}
ForecastIds == {"f1", "f2"}
DataPoints == {"50"}
Rmse == {"1.23"}
Details == {"Dataset not found", "Invalid CSV"}

\* response.data of POST /api/upload-stock-data
UploadResponses ==
  [data_id : DataIds, symbol : {InitialStockSymbol}, data_points : DataPoints]

\* An axios error: response is <<>> when there is none (network error),
\* <<d>> when the body of the response is {detail: d}
Errors == {[response |-> <<>>]} \cup {[response |-> <<d>>] : d \in Details}

\* error.response?.data?.detail || fallback
DetailOr(error, fallback) ==
  IF error.response = <<>> \/ error.response[1] = ""
  THEN fallback
  ELSE error.response[1]

\* ---------------------------------------------------------------- state
VARIABLES
  uploadedData,      \* useState(null): Null or the upload's response.data
  predictionResult,  \* useState(null): Null or the predict's response.data
  isUploading,       \* useState(false)
  isPredicting,      \* useState(false)
  forecastDays,      \* useState(14)
  stockSymbol,       \* useState('BNP')
  uploadReqs,        \* pending POST /upload-stock-data, in sending order
  predictReqs,       \* pending POST /predict, in sending order
  downloadReqs,      \* pending GET /download-forecast/{id}, in sending order
  lastToast,         \* the latest call of toast(): Null or its argument
  toastCount,        \* the number of calls of toast() so far
  userEvents,        \* history: file selections and button clicks so far
  lastEvent,         \* history: the latest of these user events
  requestsSent,      \* history: axios calls so far
  delivered,         \* history: the latest outcome axios handed to a handler
  resultOf,          \* history: data_id of the request predictionResult answers
  chart,             \* the render: Null, or the LineChart createChart returned
  sentWith           \* history: per action, for each pending request in
                     \* sending order, uploadedData and predictionResult as
                     \* they were when it was sent, and whether an upload
                     \* or a predict request was fulfilled since

shellVars == <<uploadedData, predictionResult, isUploading, isPredicting,
               forecastDays, stockSymbol, uploadReqs, predictReqs,
               downloadReqs, lastToast, toastCount, userEvents, requestsSent,
               delivered, resultOf, lastEvent>>
chartVars == <<chart>>
sentVars == <<sentWith>>
vars == <<shellVars, chartVars, sentVars>>

\* s without its i-th element
Remove(s, i) == SubSeq(s, 1, i - 1) \o SubSeq(s, i + 1, Len(s))

\* toast({title, description, variant}); variant is "default" when not given.
\* A description is its text and, for a template literal, the values put in it.
Toast(title, description, variant) ==
  [title |-> title, description |-> description, variant |-> variant]
Text(t) == [text |-> t, args |-> <<>>]
Template(t, args) == [text |-> t, args |-> args]

\* the outcome of a request: fulfilled with response.data, or rejected
Fulfilled(action, data) == [action |-> action, ok |-> TRUE, data |-> data]
Rejected(action, error) == [action |-> action, ok |-> FALSE, error |-> error]

\* a user event: the change event of the file input with the file picked, or
\* a click on one of the two buttons
FileEvent(file) == [kind |-> "file", file |-> file]
ClickEvent(button) == [kind |-> "click", button |-> button]

showToast(t) ==
  /\ lastToast' = t
  /\ toastCount' = toastCount + 1

InitShell ==
  /\ uploadedData = Null
  /\ predictionResult = Null
  /\ isUploading = FALSE
  /\ isPredicting = FALSE
  /\ forecastDays = Num(InitialForecastDays)
  /\ stockSymbol = InitialStockSymbol
  /\ uploadReqs = <<>>
  /\ predictReqs = <<>>
  /\ downloadReqs = <<>>
  /\ lastToast = Null
  /\ toastCount = 0
  /\ userEvents = 0
  /\ requestsSent = 0
  /\ delivered = Null
  /\ resultOf = Null
  /\ lastEvent = Null

\* ------------------------------------------------------------- rendering
\* the file input is enabled
FileInputEnabled == ~isUploading
\* the Forecast Days field and the Generate Forecast button are rendered
PredictFormRendered == uploadedData # Null
\* the Generate Forecast button is enabled
PredictButtonEnabled == ~isPredicting
\* the metrics, the chart and the Download CSV button are rendered
ResultsRendered == predictionResult # Null

\* ------------------------------------------------------------ the inputs
\* onChange of the Stock Symbol field: setStockSymbol(e.target.value)
SetStockSymbol(v) ==
  /\ stockSymbol' = v
  /\ UNCHANGED <<uploadedData, predictionResult, isUploading, isPredicting,
                 forecastDays, uploadReqs, predictReqs, downloadReqs, lastToast,
                 toastCount, userEvents, requestsSent, delivered, resultOf,
                 lastEvent>>

\* onChange of the Forecast Days field:
\* setForecastDays(parseInt(e.target.value))
SetForecastDays(v) ==
  /\ PredictFormRendered
  /\ forecastDays' = parseInt(v)
  /\ UNCHANGED <<uploadedData, predictionResult, isUploading, isPredicting,
                 stockSymbol, uploadReqs, predictReqs, downloadReqs, lastToast,
                 toastCount, userEvents, requestsSent, delivered, resultOf,
                 lastEvent>>

\* ---------------------------------------------------------------- upload
\* a variant of handleFileUpload without the test of the file name
handleFileUploadAnyType(file) ==
  /\ FileInputEnabled
  /\ userEvents < MaxEvents
  /\ userEvents' = userEvents + 1
  /\ lastEvent' = FileEvent(file)
  /\ IF file = NoFile
     THEN UNCHANGED <<isUploading, uploadReqs, requestsSent, lastToast,
                     toastCount>>
     ELSE /\ isUploading' = TRUE
          /\ uploadReqs' = Append(uploadReqs,
               [file |-> file, symbol |-> stockSymbol])
          /\ requestsSent' = requestsSent + 1
          /\ UNCHANGED <<lastToast, toastCount>>
  /\ UNCHANGED <<uploadedData, predictionResult, isPredicting, forecastDays,
                 stockSymbol, predictReqs, downloadReqs, delivered, resultOf>>

\* handleFileUpload up to its await: the change event of the file input
handleFileUpload(file) ==
  /\ FileInputEnabled
  /\ userEvents < MaxEvents
  /\ userEvents' = userEvents + 1
  /\ lastEvent' = FileEvent(file)
  /\ IF file = NoFile
     THEN UNCHANGED <<isUploading, uploadReqs, requestsSent, lastToast,
                     toastCount>>
     ELSE IF ~EndsWith(file, DotCsv)
     THEN /\ showToast(
               Toast("Invalid File Type", Text("Please upload a CSV file."),
                     "destructive"))
          /\ UNCHANGED <<isUploading, uploadReqs, requestsSent>>
     ELSE /\ isUploading' = TRUE
          /\ uploadReqs' = Append(uploadReqs,
               [file |-> file, symbol |-> stockSymbol])
          /\ requestsSent' = requestsSent + 1
          /\ UNCHANGED <<lastToast, toastCount>>
  /\ UNCHANGED <<uploadedData, predictionResult, isPredicting, forecastDays,
                 stockSymbol, predictReqs, downloadReqs, delivered, resultOf>>

\* a variant of UploadSuccess that forgets setPredictionResult(null)
UploadSuccessKeepsForecast(i, data) ==
  /\ i \in 1..Len(uploadReqs)
  /\ uploadReqs' = Remove(uploadReqs, i)
  /\ uploadedData' = data
  /\ showToast(
       Toast("Upload Successful",
             Template("Uploaded ${data_points} data points for ${symbol}",
                      <<data.data_points, data.symbol>>),
             "default"))
  /\ isUploading' = FALSE
  /\ delivered' = Fulfilled("upload", data)
  /\ UNCHANGED <<predictionResult, resultOf, isPredicting, forecastDays,
                 stockSymbol, predictReqs, downloadReqs, userEvents,
                 requestsSent,
                 lastEvent>>

\* handleFileUpload after its await, the request fulfilled: try and finally
UploadSuccess(i, data) ==
  /\ i \in 1..Len(uploadReqs)
  /\ uploadReqs' = Remove(uploadReqs, i)
  /\ uploadedData' = data
  /\ predictionResult' = Null
  /\ resultOf' = Null
  /\ showToast(
       Toast("Upload Successful",
             Template("Uploaded ${data_points} data points for ${symbol}",
                      <<data.data_points, data.symbol>>),
             "default"))
  /\ isUploading' = FALSE
  /\ delivered' = Fulfilled("upload", data)
  /\ UNCHANGED <<isPredicting, forecastDays, stockSymbol, predictReqs,
                 downloadReqs, userEvents, requestsSent,
                 lastEvent>>

\* a variant of UploadFailure with an empty catch block
UploadFailureSilent(i, error) ==
  /\ i \in 1..Len(uploadReqs)
  /\ uploadReqs' = Remove(uploadReqs, i)
  /\ delivered' = Rejected("upload", error)
  /\ isUploading' = FALSE
  /\ UNCHANGED <<uploadedData, predictionResult, isPredicting, forecastDays,
                 stockSymbol, predictReqs, downloadReqs, lastToast,
                 toastCount, userEvents, requestsSent, resultOf,
                 lastEvent>>

\* handleFileUpload after its await, the request rejected: catch and finally
UploadFailure(i, error) ==
  /\ i \in 1..Len(uploadReqs)
  /\ uploadReqs' = Remove(uploadReqs, i)
  /\ delivered' = Rejected("upload", error)
  /\ showToast(
       Toast("Upload Failed", Text(DetailOr(error, "Error uploading file")),
             "destructive"))
  /\ isUploading' = FALSE
  /\ UNCHANGED <<uploadedData, predictionResult, isPredicting, forecastDays,
                 stockSymbol, predictReqs, downloadReqs, userEvents,
                 requestsSent, resultOf,
                 lastEvent>>

\* a variant of handlePredict with neither the rendering condition nor the
\* early return on a missing upload
handlePredictUngated ==
  /\ PredictButtonEnabled
  /\ userEvents < MaxEvents
  /\ userEvents' = userEvents + 1
  /\ lastEvent' = ClickEvent("predict")
  /\ isPredicting' = TRUE
  /\ predictReqs' = Append(predictReqs,
       [data_id |-> Field(uploadedData, "data_id"),
        forecast_days |-> forecastDays])
  /\ requestsSent' = requestsSent + 1
  /\ UNCHANGED <<uploadedData, predictionResult, isUploading, forecastDays,
                 stockSymbol, uploadReqs, downloadReqs, lastToast, toastCount,
                 delivered, resultOf>>

\* --------------------------------------------------------------- predict
\* handlePredict up to its await: a click on Generate Forecast
handlePredict ==
  /\ PredictFormRendered
  /\ PredictButtonEnabled
  /\ userEvents < MaxEvents
  /\ userEvents' = userEvents + 1
  /\ lastEvent' = ClickEvent("predict")
  /\ IF uploadedData = Null
     THEN UNCHANGED <<isPredicting, predictReqs, requestsSent>>
     ELSE /\ isPredicting' = TRUE
          /\ predictReqs' = Append(predictReqs,
               [data_id |-> uploadedData.data_id,
                forecast_days |-> forecastDays])
          /\ requestsSent' = requestsSent + 1
  /\ UNCHANGED <<uploadedData, predictionResult, isUploading, forecastDays,
                 stockSymbol, uploadReqs, downloadReqs, lastToast, toastCount,
                 delivered,
                 resultOf>>

\* handlePredict after its await, the request fulfilled: try and finally.
\* forecastDays in the description is the value the handler closed over,
\* which is the one it sent.
PredictSuccess(i, data) ==
  /\ i \in 1..Len(predictReqs)
  /\ predictReqs' = Remove(predictReqs, i)
  /\ predictionResult' = data
  /\ resultOf' = predictReqs[i].data_id
  /\ showToast(
       Toast("Prediction Complete",
             Template("Generated ${forecastDays}-day forecast with RMSE: ${rmse}",
                      <<predictReqs[i].forecast_days, data.rmse>>),
             "default"))
  /\ isPredicting' = FALSE
  /\ delivered' = Fulfilled("predict", data)
  /\ UNCHANGED <<uploadedData, isUploading, forecastDays, stockSymbol,
                 uploadReqs, downloadReqs, userEvents, requestsSent,
                 lastEvent>>

\* a variant of PredictFailure whose catch block also drops the forecast held
PredictFailureClearsResult(i, error) ==
  /\ i \in 1..Len(predictReqs)
  /\ predictReqs' = Remove(predictReqs, i)
  /\ delivered' = Rejected("predict", error)
  /\ predictionResult' = Null
  /\ resultOf' = Null
  /\ showToast(
       Toast("Prediction Failed",
             Text(DetailOr(error, "Error generating predictions")),
             "destructive"))
  /\ isPredicting' = FALSE
  /\ UNCHANGED <<uploadedData, isUploading, forecastDays, stockSymbol,
                 uploadReqs, downloadReqs, userEvents, requestsSent,
                 lastEvent>>

\* a variant of PredictFailure that resets the busy flag in the try block
\* only, so that a rejected request leaves it set
PredictFailureKeepsBusy(i, error) ==
  /\ i \in 1..Len(predictReqs)
  /\ predictReqs' = Remove(predictReqs, i)
  /\ delivered' = Rejected("predict", error)
  /\ showToast(
       Toast("Prediction Failed",
             Text(DetailOr(error, "Error generating predictions")),
             "destructive"))
  /\ UNCHANGED <<uploadedData, predictionResult, isUploading, isPredicting,
                 forecastDays, stockSymbol, uploadReqs, downloadReqs,
                 userEvents, requestsSent, resultOf,
                 lastEvent>>

\* handlePredict after its await, the request rejected: catch and finally
PredictFailure(i, error) ==
  /\ i \in 1..Len(predictReqs)
  /\ predictReqs' = Remove(predictReqs, i)
  /\ delivered' = Rejected("predict", error)
  /\ showToast(
       Toast("Prediction Failed",
             Text(DetailOr(error, "Error generating predictions")),
             "destructive"))
  /\ isPredicting' = FALSE
  /\ UNCHANGED <<uploadedData, predictionResult, isUploading, forecastDays,
                 stockSymbol, uploadReqs, downloadReqs, userEvents,
                 requestsSent, resultOf,
                 lastEvent>>

\* a variant of handleDownload with neither the rendering condition nor the
\* early return on a missing result
handleDownloadUngated ==
  /\ userEvents < MaxEvents
  /\ userEvents' = userEvents + 1
  /\ lastEvent' = ClickEvent("download")
  /\ downloadReqs' = Append(downloadReqs,
       [id |-> Field(predictionResult, "id")])
  /\ requestsSent' = requestsSent + 1
  /\ UNCHANGED <<uploadedData, predictionResult, isUploading, isPredicting,
                 forecastDays, stockSymbol, uploadReqs, predictReqs, lastToast,
                 toastCount, delivered, resultOf>>

\* -------------------------------------------------------------- download
\* handleDownload up to its await: a click on Download CSV
handleDownload ==
  /\ ResultsRendered
  /\ userEvents < MaxEvents
  /\ userEvents' = userEvents + 1
  /\ lastEvent' = ClickEvent("download")
  /\ IF predictionResult = Null
     THEN UNCHANGED <<downloadReqs, requestsSent>>
     ELSE /\ downloadReqs' = Append(downloadReqs,
               [id |-> predictionResult.id])
          /\ requestsSent' = requestsSent + 1
  /\ UNCHANGED <<uploadedData, predictionResult, isUploading, isPredicting,
                 forecastDays, stockSymbol, uploadReqs, predictReqs, lastToast,
                 toastCount, delivered, resultOf>>

\* handleDownload after its await, the request fulfilled: the file is saved
\* through a temporary link and the success is announced
DownloadSuccess(i) ==
  /\ i \in 1..Len(downloadReqs)
  /\ downloadReqs' = Remove(downloadReqs, i)
  /\ showToast(
       Toast("Download Complete",
             Text("Forecast data downloaded successfully"), "default"))
  /\ delivered' = Fulfilled("download", "csv")
  /\ UNCHANGED <<uploadedData, predictionResult, isUploading, isPredicting,
                 forecastDays, stockSymbol, uploadReqs, predictReqs,
                 userEvents, requestsSent, resultOf,
                 lastEvent>>

\* handleDownload after its await, the request rejected: catch
DownloadFailure(i, error) ==
  /\ i \in 1..Len(downloadReqs)
  /\ downloadReqs' = Remove(downloadReqs, i)
  /\ delivered' = Rejected("download", error)
  /\ showToast(
       Toast("Download Failed", Text("Error downloading forecast data"),
             "destructive"))
  /\ UNCHANGED <<uploadedData, predictionResult, isUploading, isPredicting,
                 forecastDays, stockSymbol, uploadReqs, predictReqs,
                 userEvents, requestsSent, resultOf,
                 lastEvent>>

\* ---------------------------------------------------------- chart assembly
\* what a chart payload is made of
Dates == {"2024-03-08", "2024-03-11"}
Prices == {"0", "70.1"}
UpperPrices == {"75.2"}
LowerPrices == {"0", "68.3"}

\* array[index] of JavaScript, for the 0-based index i - 1
At(array, i) == IF i \in DOMAIN array THEN array[i] ELSE Undefined

\* series of n values, or of n - 1 (an array shorter than its dates)
Series(S, n) == [1..n -> S] \cup (IF n > 0 THEN [1..(n - 1) -> S] ELSE {})

\* predictionResult.chart_data
Payloads ==
  UNION { [historical : { [dates |-> d, actual |-> a] :
                            d \in [1..h -> Dates], a \in Series(Prices, h) },
           forecast : { [dates |-> d, forecast |-> v, upper_bound |-> u,
                         lower_bound |-> l] :
                            d \in [1..f -> Dates], v \in Series(Prices, f),
                            u \in [1..f -> UpperPrices],
                            l \in [1..f -> LowerPrices] }]
          : h \in 0..MaxPoints, f \in 0..MaxPoints }

\* historical.dates.forEach((date, index) => chartData.push({...}))
HistoricalEntries(historical) ==
  [i \in 1..Len(historical.dates) |->
     [date |-> historical.dates[i],
      actual |-> At(historical.actual, i),
      type |-> "historical"]]

\* forecast.dates.forEach((date, index) => chartData.push({...}))
ForecastEntries(forecast) ==
  [i \in 1..Len(forecast.dates) |->
     [date |-> forecast.dates[i],
      forecast |-> At(forecast.forecast, i),
      upper |-> At(forecast.upper_bound, i),
      lower |-> At(forecast.lower_bound, i),
      type |-> "forecast"]]

\* <LineChart data={chartData}>
LineChart(chartData) == [data |-> chartData]

\* a variant of createChart that pushes the forecast points first
createChartForecastFirst(result) ==
  IF result = Null THEN Null
  ELSE LineChart(ForecastEntries(result.chart_data.forecast)
                   \o HistoricalEntries(result.chart_data.historical))

\* createChart, for predictionResult = result: null without a result, else
\* the LineChart of the chartData it has built
createChart(result) ==
  IF result = Null THEN Null
  ELSE LineChart(HistoricalEntries(result.chart_data.historical)
                   \o ForecastEntries(result.chart_data.forecast))

\* The render that follows every state update: the results tab calls
\* createChart() when predictionResult is set, and shows a placeholder
\* otherwise.
Render ==
  chart' = IF predictionResult' # Null
           THEN createChart(predictionResult')
           ELSE Null

\* the chart payload the backend sends in the runs of the whole shell
SamplePayloads ==
  { [historical |-> [dates |-> <<"2024-03-08">>, actual |-> <<"70.1">>],
     forecast |-> [dates |-> <<"2024-03-11">>, forecast |-> <<"70.1">>,
                   upper_bound |-> <<"75.2">>, lower_bound |-> <<"68.3">>]] }

\* response.data of POST /api/predict
PredictResponses ==
  [id : ForecastIds, rmse : Rmse, chart_data : SamplePayloads]

\* response.data of POST /api/predict, with every chart payload
ChartResponses == [id : ForecastIds, rmse : Rmse, chart_data : Payloads]

\* ------------------------------------------------------- specification
UploadResolves ==
  \/ \E i \in 1..Len(uploadReqs), data \in UploadResponses :
        UploadSuccess(i, data)
  \/ \E i \in 1..Len(uploadReqs), error \in Errors : UploadFailure(i, error)

PredictResolves ==
  \/ \E i \in 1..Len(predictReqs), data \in PredictResponses :
        PredictSuccess(i, data)
  \/ \E i \in 1..Len(predictReqs), error \in Errors :
        PredictFailure(i, error)

DownloadResolves ==
  \/ \E i \in 1..Len(downloadReqs) : DownloadSuccess(i)
  \/ \E i \in 1..Len(downloadReqs), error \in Errors :
        DownloadFailure(i, error)

\* a step of the shell that keeps no record of the state at sending
Unrecorded == UNCHANGED sentVars

Next ==
  \/ \E v \in Symbols : SetStockSymbol(v) /\ Render /\ Unrecorded
  \/ \E v \in NumberInputValues : SetForecastDays(v) /\ Render /\ Unrecorded
  \/ \E file \in {NoFile} \cup FileNames :
        handleFileUpload(file) /\ Render /\ Unrecorded
  \/ handlePredict /\ Render /\ Unrecorded
  \/ handleDownload /\ Render /\ Unrecorded
  \/ UploadResolves /\ Render /\ Unrecorded
  \/ PredictResolves /\ Render /\ Unrecorded
  \/ DownloadResolves /\ Render /\ Unrecorded

\* at mount the results tab shows its placeholder
NoChart == chart = Null

\* at mount no request was sent
NothingSent == sentWith = [upload |-> <<>>, predict |-> <<>>, download |-> <<>>]

Init == InitShell /\ NoChart /\ NothingSent

Spec == Init /\ [][Next]_vars

\* every pending request is answered in the end
LiveSpec ==
  /\ Spec
  /\ WF_vars(UploadResolves /\ Render /\ Unrecorded)
  /\ WF_vars(PredictResolves /\ Render /\ Unrecorded)
  /\ WF_vars(DownloadResolves /\ Render /\ Unrecorded)

\* The state in which the first forecast is awaited: a.csv was picked, the
\* upload was fulfilled with d1, and Generate Forecast was clicked.
InitPredicting ==
  LET data == [data_id |-> "d1", symbol |-> InitialStockSymbol,
               data_points |-> "50"]
  IN  /\ uploadedData = data
      /\ predictionResult = Null
      /\ isUploading = FALSE
      /\ isPredicting = TRUE
      /\ forecastDays = Num(InitialForecastDays)
      /\ stockSymbol = InitialStockSymbol
      /\ uploadReqs = <<>>
      /\ predictReqs = <<[data_id |-> "d1",
                          forecast_days |-> Num(InitialForecastDays)]>>
      /\ downloadReqs = <<>>
      /\ lastToast =
           Toast("Upload Successful",
                 Template("Uploaded ${data_points} data points for ${symbol}",
                          <<"50", InitialStockSymbol>>),
                 "default")
      /\ toastCount = 1
      /\ userEvents = 2
      /\ lastEvent = ClickEvent("predict")
      /\ requestsSent = 2
      /\ delivered = Fulfilled("upload", data)
      /\ resultOf = Null
      /\ chart = Null
      /\ sentWith = [upload |-> <<>>, predict |-> <<>>, download |-> <<>>]

\* the forecast arrives, with any chart payload, and the results are rendered
NextChart ==
  /\ predictReqs # <<>>
  /\ \E data \in ChartResponses :
        PredictSuccess(1, data) /\ Render /\ Unrecorded

\* the chart assembly on every payload
SpecChart == InitPredicting /\ [][NextChart]_vars

\* ------------------------------------------------ the state at sending
\* what the component holds when a handler is called, before its request
SentWith ==
  [uploadedData |-> uploadedData, predictionResult |-> predictionResult,
   overtaken |-> FALSE]

\* a step of a handler up to its await: a request that is sent is recorded
\* with the state it was sent in
Remember ==
  sentWith' =
    IF Len(uploadReqs') > Len(uploadReqs)
    THEN [sentWith EXCEPT !.upload = Append(@, SentWith)]
    ELSE IF Len(predictReqs') > Len(predictReqs)
    THEN [sentWith EXCEPT !.predict = Append(@, SentWith)]
    ELSE IF Len(downloadReqs') > Len(downloadReqs)
    THEN [sentWith EXCEPT !.download = Append(@, SentWith)]
    ELSE sentWith

\* every request of s has seen another request fulfilled
Overtake(s) == [k \in 1..Len(s) |-> [s[k] EXCEPT !.overtaken = TRUE]]

\* the i-th pending request of the action is answered: its record goes, and
\* a fulfilled upload or predict request overtakes the requests still pending
Settle(action, i) ==
  sentWith' =
    IF delivered'.ok /\ action \in {"upload", "predict"}
    THEN [a \in DOMAIN sentWith |->
            Overtake(IF a = action
                     THEN Remove(sentWith[a], i)
                     ELSE sentWith[a])]
    ELSE [sentWith EXCEPT ![action] = Remove(@, i)]

\* the i-th pending request of an action is answered, either way
UploadOutcome(i) ==
  \/ \E data \in UploadResponses : UploadSuccess(i, data)
  \/ \E error \in Errors : UploadFailure(i, error)

PredictOutcome(i) ==
  \/ \E data \in PredictResponses : PredictSuccess(i, data)
  \/ \E error \in Errors : PredictFailure(i, error)

DownloadOutcome(i) ==
  \/ DownloadSuccess(i)
  \/ \E error \in Errors : DownloadFailure(i, error)

\* the steps of Next, each request recorded with the state it was sent in
NextSent ==
  \/ \E v \in Symbols : SetStockSymbol(v) /\ Render /\ Remember
  \/ \E v \in NumberInputValues : SetForecastDays(v) /\ Render /\ Remember
  \/ \E file \in {NoFile} \cup FileNames :
        handleFileUpload(file) /\ Render /\ Remember
  \/ handlePredict /\ Render /\ Remember
  \/ handleDownload /\ Render /\ Remember
  \/ \E i \in 1..Len(uploadReqs) :
        UploadOutcome(i) /\ Render /\ Settle("upload", i)
  \/ \E i \in 1..Len(predictReqs) :
        PredictOutcome(i) /\ Render /\ Settle("predict", i)
  \/ \E i \in 1..Len(downloadReqs) :
        DownloadOutcome(i) /\ Render /\ Settle("download", i)

\* the shell with its history of the states at sending
SpecSent == Init /\ [][NextSent]_vars

\* ================================================================ claims
\* the bounds of the horizon: min="7" and max="30" of the Forecast Days field
MinForecastDays == 7
MaxForecastDays == 30

Pending == Len(uploadReqs) + Len(predictReqs) + Len(downloadReqs)
\* this step hands the outcome of a pending request to its handler
Resolves == Pending' = Pending - 1
Last(s) == s[Len(s)]

\* C1: for each of upload, predict and download, at most one request of that
\* action is unresolved in any reachable state.
C1_OneInFlightPerAction ==
  /\ Len(uploadReqs) <= 1
  /\ Len(predictReqs) <= 1
  /\ Len(downloadReqs) <= 1

\* C2: the step in which an upload request is fulfilled sets uploadedData to
\* the data returned and predictionResult to null.
C2_UploadSuccessClearsForecast ==
  [][(Resolves /\ delivered'.action = "upload" /\ delivered'.ok)
       => /\ uploadedData' = delivered'.data
          /\ predictionResult' = Null]_vars

\* the forecast of an earlier upload was held, and an upload was fulfilled
C2_Witness ==
  /\ delivered # Null
  /\ delivered.action = "upload"
  /\ delivered.ok
  /\ predictionResult = Null
  /\ uploadedData = delivered.data
  /\ toastCount > 2

\* C3: every predict request sent carries an integer forecast_days with
\* 7 <= forecast_days <= 30.
C3_HorizonInRange ==
  \A i \in 1..Len(predictReqs) :
    /\ ~predictReqs[i].forecast_days.nan
    /\ predictReqs[i].forecast_days.n >= MinForecastDays
    /\ predictReqs[i].forecast_days.n <= MaxForecastDays

\* C4: a predict request is sent only when uploadedData is non-null, and it
\* carries the data_id of uploadedData at the moment of sending.
C4_PredictGatedOnUpload ==
  [][Len(predictReqs') > Len(predictReqs)
       => /\ uploadedData # Null
          /\ Last(predictReqs').data_id = uploadedData.data_id]_vars

\* a predict request is pending
C4_Witness ==
  /\ Len(predictReqs) > 0
  /\ uploadedData # Null

\* C5: a chart is shown only while predictionResult is non-null; a download
\* request is sent only when predictionResult is non-null
\* (the results are rendered), and it targets the id of the predictionResult
\* held at the moment of sending.
C5_DownloadGatedOnResult ==
  /\ [](chart # Null => predictionResult # Null)
  /\ [][Len(downloadReqs') > Len(downloadReqs)
          => /\ ResultsRendered
             /\ predictionResult # Null
             /\ Last(downloadReqs').id = predictionResult.id]_vars

\* a download request is pending
C5_Witness ==
  /\ Len(downloadReqs) > 0
  /\ predictionResult # Null

\* C6: a rejected request makes exactly one call of toast(), a destructive
\* one; a request is sent only in the step of a user event, one per event,
\* so that the requests sent never outnumber the user events.
C6_FailureNotifiedNoRetry ==
  /\ [][(Resolves /\ ~delivered'.ok)
          => /\ toastCount' = toastCount + 1
             /\ lastToast'.variant = "destructive"]_vars
  /\ [][requestsSent' # requestsSent
          => /\ requestsSent' = requestsSent + 1
             /\ userEvents' = userEvents + 1]_vars
  /\ [](requestsSent <= userEvents)

\* a request was rejected and the failure is what the latest toast shows
C6_Witness ==
  /\ delivered # Null
  /\ ~delivered.ok
  /\ lastToast # Null
  /\ lastToast.variant = "destructive"
  /\ requestsSent > 0

\* C7: when a request of any action is rejected with the body
\* {detail: message}, the toast shown has that message as its description.
C7_DetailVerbatim ==
  [][(Resolves /\ ~delivered'.ok /\ delivered'.error.response # <<>>)
       => lastToast'.description = Text(delivered'.error.response[1])]_vars

\* C8: createChart builds H + F entries: the H historical points in input
\* order, tagged historical, with date and actual only, then the F forecast
\* points in input order, tagged forecast, with date, forecast, upper and
\* lower only.
C8_ChartAssembly ==
  predictionResult # Null =>
    LET hist == predictionResult.chart_data.historical
        fore == predictionResult.chart_data.forecast
        H    == Len(hist.dates)
        F    == Len(fore.dates)
    IN  /\ chart # Null
        /\ Len(chart.data) = H + F
        /\ \A i \in 1..H :
             /\ DOMAIN chart.data[i] = {"date", "actual", "type"}
             /\ chart.data[i].type = "historical"
             /\ chart.data[i].date = hist.dates[i]
             /\ chart.data[i].actual = At(hist.actual, i)
             /\ Field(chart.data[i], "forecast") = Undefined
             /\ Field(chart.data[i], "upper") = Undefined
             /\ Field(chart.data[i], "lower") = Undefined
        /\ \A i \in 1..F :
             /\ DOMAIN chart.data[H + i] =
                  {"date", "forecast", "upper", "lower", "type"}
             /\ chart.data[H + i].type = "forecast"
             /\ chart.data[H + i].date = fore.dates[i]
             /\ chart.data[H + i].forecast = At(fore.forecast, i)
             /\ chart.data[H + i].upper = At(fore.upper_bound, i)
             /\ chart.data[H + i].lower = At(fore.lower_bound, i)
             /\ Field(chart.data[H + i], "actual") = Undefined

\* a chart was assembled from several historical and several forecast
\* points, with a price of zero among them
C8_Witness ==
  /\ predictionResult # Null
  /\ chart # Null
  /\ Len(predictionResult.chart_data.historical.dates) > 1
  /\ Len(predictionResult.chart_data.forecast.dates) > 1
  /\ Len(chart.data) > 3
  /\ chart.data[1].actual = "0"

\* C9: isUploading (isPredicting) is true exactly while an upload (predict)
\* request is pending, and, every pending request being answered in the end,
\* each flag that is set is reset in the end (isUploading ~> ~isUploading,
\* written in its equivalent form []<>~isUploading; likewise isPredicting).
C9_BusyFlagsReleased ==
  /\ [](isUploading <=> Len(uploadReqs) > 0)
  /\ [](isPredicting <=> Len(predictReqs) > 0)
  /\ []<>(~isUploading)
  /\ []<>(~isPredicting)

\* a predict request was rejected, its flag is reset and the button is
\* enabled again, while an upload is still pending
C9_Witness ==
  /\ delivered # Null
  /\ delivered.action = "predict"
  /\ ~delivered.ok
  /\ ~isPredicting
  /\ PredictButtonEnabled
  /\ isUploading

\* C10: a non-null predictionResult answers a predict request whose data_id
\* is the data_id of the current uploadedData.
C10_ForecastOfCurrentDataset ==
  predictionResult # Null
    => /\ uploadedData # Null
       /\ resultOf = uploadedData.data_id

\* this step hands a rejected upload, a rejected predict, or any outcome of
\* a download to its handler
HandsFailureOrDownload ==
  /\ Resolves
  /\ (~delivered'.ok \/ delivered'.action = "download")

\* of the component's state, this step changes at most the busy flag of the
\* action whose request it answers
OnlyBusyFlagChanges ==
  /\ forecastDays' = forecastDays
  /\ stockSymbol' = stockSymbol
  /\ (delivered'.action # "upload" => isUploading' = isUploading)
  /\ (delivered'.action # "predict" => isPredicting' = isPredicting)

\* C11, as stated: when a rejected upload, a rejected predict, or any
\* outcome of a download is handed to its handler, uploadedData and
\* predictionResult are what they were before the request was sent, and
\* only the matching busy flag and the notification change.
C11_UnchangedSinceRequest ==
  [][HandsFailureOrDownload
       => /\ \A i \in 1..Len(sentWith[delivered'.action]) :
               sentWith'[delivered'.action]
                   = Remove(sentWith[delivered'.action], i)
                 => /\ uploadedData' = sentWith[delivered'.action][i].uploadedData
                    /\ predictionResult'
                         = sentWith[delivered'.action][i].predictionResult
          /\ OnlyBusyFlagChanges]_vars

\* C11, amended: neither the step that sends a request nor the step that
\* hands a rejected upload, a rejected predict, or any outcome of a download
\* to its handler changes uploadedData or predictionResult, and the latter
\* step changes only the matching busy flag and the notification. When the
\* outcome is handed over, uploadedData and predictionResult are what they
\* were before the request was sent, unless an upload or a predict request
\* was fulfilled in between; even then, uploadedData after a rejected upload
\* is what it was before the request, and predictionResult after a rejected
\* predict is what it was before the request or null.
C11_NoPartialSuccess ==
  /\ [][requestsSent' # requestsSent
          => /\ uploadedData' = uploadedData
             /\ predictionResult' = predictionResult]_vars
  /\ [][HandsFailureOrDownload
          => /\ uploadedData' = uploadedData
             /\ predictionResult' = predictionResult
             /\ OnlyBusyFlagChanges
             /\ toastCount' = toastCount + 1
             /\ \A i \in 1..Len(sentWith[delivered'.action]) :
                  sentWith'[delivered'.action]
                      = Remove(sentWith[delivered'.action], i)
                    => LET sent == sentWith[delivered'.action][i]
                       IN  /\ ~sent.overtaken
                                => /\ uploadedData' = sent.uploadedData
                                   /\ predictionResult' = sent.predictionResult
                           /\ delivered'.action = "upload"
                                => uploadedData' = sent.uploadedData
                           /\ delivered'.action = "predict"
                                => predictionResult'
                                     \in {sent.predictionResult, Null}]_vars

\* a predict request was rejected while a dataset and an earlier forecast
\* were held, and both are still held
C11_Witness ==
  /\ delivered # Null
  /\ delivered.action = "predict"
  /\ ~delivered.ok
  /\ uploadedData # Null
  /\ predictionResult # Null
  /\ lastToast.title = "Prediction Failed"

\* this step is a change event of the file input
FileStep ==
  /\ userEvents' = userEvents + 1
  /\ lastEvent'.kind = "file"

\* the name ends with the four characters .csv
NamedDotCsv(name) ==
  /\ Len(name) >= 4
  /\ name[Len(name) - 3] = "."
  /\ name[Len(name) - 2] = "c"
  /\ name[Len(name) - 1] = "s"
  /\ name[Len(name)] = "v"

\* C12: a change event of the file input with no file, or with a file whose
\* name does not end with .csv, sends no upload request, leaves isUploading
\* false and uploadedData and predictionResult as they were; it makes exactly
\* one call of toast(), titled Invalid File Type, for such a name and none
\* for no file.
C12_FileTypeRejection ==
  [][(FileStep /\ ~NamedDotCsv(lastEvent'.file))
       => /\ uploadReqs' = uploadReqs
          /\ requestsSent' = requestsSent
          /\ ~isUploading'
          /\ uploadedData' = uploadedData
          /\ predictionResult' = predictionResult
          /\ IF lastEvent'.file = NoFile
             THEN /\ toastCount' = toastCount
                  /\ lastToast' = lastToast
             ELSE /\ toastCount' = toastCount + 1
                  /\ lastToast'.title = "Invalid File Type"
                  /\ lastToast'.variant = "destructive"]_vars

\* a file not named .csv was picked while a dataset was held: the rejection
\* is shown, nothing is pending and the dataset is still held
C12_Witness ==
  /\ lastEvent # Null
  /\ lastEvent.kind = "file"
  /\ lastEvent.file # NoFile
  /\ ~NamedDotCsv(lastEvent.file)
  /\ lastToast # Null
  /\ lastToast.title = "Invalid File Type"
  /\ ~isUploading
  /\ uploadReqs = <<>>
  /\ uploadedData # Null

====
